---- MODULE Spec2Model ----
(***************************************************************************)
(* A model of fprint-prompt (src/main.rs): the layer-shell overlay client  *)
(* SimpleLayer, its Wayland event handlers, its renderer draw(), the D-Bus *)
(* bridge verify_status_msg() and the main loop that alternates a blocking *)
(* Wayland dispatch with one bounded poll of the system bus.               *)
(*                                                                         *)
(* One action per handler.  A handler is atomic: the program is single     *)
(* threaded and blocking_dispatch runs each callback to completion.        *)
(***************************************************************************)
EXTENDS Integers, Sequences, FiniteSets

\* ------------------------------------------------------------------ bounds
\* Largest width/height a configure event carries.
MaxConfig == 1
\* Longest event slice handed to pointer_frame.
MaxPointerEvents == 1
\* most messages waiting on the bus when the loop starts
MaxPending == 2
\* largest thickness, length and offset of the bars the geometry is computed for
GeomMax == 2

\* ------------------------------------------------------- Option<T> values
None == <<>>
Some(x) == <<x>>
is_some(o) == o # None
\* Option::or in its place: the first if it is Some, else the second
xor_as_or(a, b) == IF a # None THEN a ELSE b

\* Option::xor: Some iff exactly one of the two is Some.
xor(a, b) == IF a # None /\ b = None THEN a ELSE IF a = None /\ b # None THEN b ELSE None

\* ------------------------------------------------------------ PositionInfo
\* Anchor is a bitflags type: TOP = 1, BOTTOM = 2, LEFT = 4, RIGHT = 8.
TOP == 1
BOTTOM == 2
LEFT == 4
RIGHT == 8

Position(t, l, e, c, o) == [thickness |-> t, length |-> l, edge |-> e, close_to |-> c, offset |-> o]

\* main() builds one PositionInfo, an 8 x 138 bar on the RIGHT edge, close to TOP,
\* pushed 100 down.  The model runs scaled-down bars, one per edge, so that a whole
\* canvas fits in a state: with and without rows above the offset, and one whose
\* offset exceeds its height.
PositionInfo == { Position(2, 1, RIGHT, TOP, 1),
                  Position(2, 2, LEFT, TOP, 0),
                  Position(1, 1, TOP, LEFT, 2),
                  Position(2, 1, BOTTOM, LEFT, 1) }

\* the two axes exchanged
win_width_swapped(p) == IF p.edge \in {TOP, BOTTOM} THEN p.thickness ELSE p.length + p.offset

win_width(p) == IF p.edge \in {TOP, BOTTOM} THEN p.length + p.offset ELSE p.thickness

win_height(p) == IF p.edge \in {TOP, BOTTOM} THEN p.thickness ELSE p.length + p.offset

VARIABLES
  pos,              \* SimpleLayer.pos, immutable after construction
  exit,             \* SimpleLayer.exit
  first_configure,  \* SimpleLayer.first_configure
  width, height,    \* SimpleLayer.width / height (set by configure)
  shift,            \* SimpleLayer.shift : Option<u32>
  scale,            \* SimpleLayer.scale : f32, kept as the fraction <<num, 120>>
  prompt,           \* SimpleLayer.prompt : Option<String>
  pc,               \* position of main(): "dispatch", "poll", "check", "done", "panicked"
  dispatched,       \* blocking_dispatch has run at least one handler in this iteration
  msg,              \* the message `dbus.incoming(10).next()` returned in this iteration
  ev,               \* the handler that ran last
  new_size,         \* configure.new_size of the last configure event
  events,           \* the slice handed to pointer_frame, while it is the handler that
                    \* ran last in the current dispatch
  reqs,             \* the surface requests issued by the handler that ran last
  canvas,           \* bytes of the buffer attached last (<<>> before any draw)
  frame_cbs,        \* frame callbacks requested and not yet delivered
  closed_seen,      \* the closed event has been handled
  pending           \* the messages waiting on the bus connection, oldest first, where
                    \* the bus is a finite queue; <<>> where the poll is a free choice

vars == <<pos, exit, first_configure, width, height, shift, scale, prompt, pc, dispatched,
          msg, ev, new_size, events, reqs, canvas, frame_cbs, closed_seen, pending>>

\* --------------------------------------------------------- wire requests
Req(op, args) == [op |-> op, args |-> args]

\* main(), lines 126-135: anchor, interactivity, size, then the empty commit.
SetupReqs(p) == << Req("set_anchor", <<p.edge + p.close_to>>),
                   Req("set_keyboard_interactivity", <<0>>),
                   Req("set_size", <<win_width(p), win_height(p)>>),
                   Req("commit", <<>>) >>

\* ------------------------------------------------------------- rendering
\* A pixel is a u32.  It is kept as its two 16-bit halves <<high, low>>, since
\* 0xFFFFFFFF exceeds TLC's 32-bit integers.
Transparent == <<0, 0>>
White == <<65535, 65535>>

\* u32::to_le_bytes: least significant byte first
to_le_bytes(c) == << c[2] % 256, c[2] \div 256, c[1] % 256, c[1] \div 256 >>
\* the u32 a 4-byte chunk of the canvas holds
from_le_bytes(b) == << b[3] + 256 * b[4], b[1] + 256 * b[2] >>

\* colour with the offset row painted transparent too
color_off_by_one(p, index) == IF (index \div win_width(p)) <= p.offset THEN Transparent ELSE White

\* The closure of draw(): colour of the pixel with the given index.
color(p, index) == IF (index \div win_width(p)) < p.offset THEN Transparent ELSE White

\* The canvas draw() leaves: stride * height bytes, stride = width * 4.
paint(p, pr) ==
  LET n == win_width(p) * win_height(p)
  IN  IF is_some(pr)
      THEN [b \in 1..(4 * n) |-> to_le_bytes(color(p, (b - 1) \div 4))[((b - 1) % 4) + 1]]
      ELSE [b \in 1..(4 * n) |-> 0]

\* shift advanced on every draw, prompt or not
advance_every_draw(p, pr, sh) ==
  IF is_some(sh) THEN Some((sh[1] + 1) % win_width(p)) ELSE sh

\* shift advanced without the wrap
advance_no_wrap(p, pr, sh) ==
  IF is_some(pr) /\ is_some(sh) THEN Some(sh[1] + 1) ELSE sh

\* shift after draw(): advanced only inside the `prompt.is_some()` branch.
advance(p, pr, sh) ==
  IF is_some(pr) /\ is_some(sh) THEN Some((sh[1] + 1) % win_width(p)) ELSE sh

DrawReqs(p) == << Req("damage_buffer", <<0, 0, win_width(p), win_height(p)>>),
                  Req("frame", <<>>),
                  Req("attach", <<>>),
                  Req("commit", <<>>) >>

\* SimpleLayer::draw, given the number of frame callbacks outstanding when it starts.
draw(cbs) ==
  /\ canvas' = paint(pos, prompt)
  /\ shift' = advance(pos, prompt, shift)
  /\ reqs' = DrawReqs(pos)
  /\ frame_cbs' = cbs + 1

\* ---------------------------------------------------------------- Init
Init ==
  /\ pos \in PositionInfo
  /\ exit = FALSE
  /\ first_configure = TRUE
  /\ width = win_width(pos)
  /\ height = win_height(pos)
  /\ shift = None
  /\ scale = <<120, 120>>
  /\ prompt = None
  /\ pc = "dispatch"
  /\ dispatched = FALSE
  /\ msg = None
  /\ ev = "none"
  /\ new_size = None
  /\ events = None
  /\ reqs = SetupReqs(pos)
  /\ canvas = <<>>
  /\ frame_cbs = 0
  /\ closed_seen = FALSE
  /\ pending = <<>>

\* the same construction for the bars of ps
InitFor(ps) ==
  /\ pos \in ps
  /\ exit = FALSE
  /\ first_configure = TRUE
  /\ width = win_width(pos)
  /\ height = win_height(pos)
  /\ shift = None
  /\ scale = <<120, 120>>
  /\ prompt = None
  /\ pc = "dispatch"
  /\ dispatched = FALSE
  /\ msg = None
  /\ ev = "none"
  /\ new_size = None
  /\ events = None
  /\ reqs = SetupReqs(pos)
  /\ canvas = <<>>
  /\ frame_cbs = 0
  /\ closed_seen = FALSE
  /\ pending = <<>>

\* ------------------------------------------------------ Wayland handlers
Handling(name) ==
  /\ pc = "dispatch"
  /\ ev' = name
  /\ events' = None
  /\ dispatched' = TRUE

\* configure that draws without clearing first_configure
configure_flag_kept(w, h) ==
  /\ Handling("configure")
  /\ new_size' = Some(<<w, h>>)
  /\ IF w = 0 \/ h = 0
     THEN width' = 256 /\ height' = 256
     ELSE width' = w /\ height' = h
  /\ IF first_configure
     THEN first_configure' = first_configure /\ draw(frame_cbs)
     ELSE /\ reqs' = <<>>
          /\ UNCHANGED <<first_configure, canvas, shift, frame_cbs>>
  /\ UNCHANGED <<pos, pending, exit, scale, prompt, pc, msg, closed_seen>>

\* configure that draws on every configure event
configure_always_draws(w, h) ==
  /\ Handling("configure")
  /\ new_size' = Some(<<w, h>>)
  /\ IF w = 0 \/ h = 0
     THEN width' = 256 /\ height' = 256
     ELSE width' = w /\ height' = h
  /\ first_configure' = FALSE
  /\ draw(frame_cbs)
  /\ UNCHANGED <<pos, pending, exit, scale, prompt, pc, msg, closed_seen>>

\* configure that falls back only when both components are zero
configure_both_zero(w, h) ==
  /\ Handling("configure")
  /\ new_size' = Some(<<w, h>>)
  /\ IF w = 0 /\ h = 0
     THEN width' = 256 /\ height' = 256
     ELSE width' = w /\ height' = h
  /\ IF first_configure
     THEN first_configure' = FALSE /\ draw(frame_cbs)
     ELSE /\ reqs' = <<>>
          /\ UNCHANGED <<first_configure, canvas, shift, frame_cbs>>
  /\ UNCHANGED <<pos, pending, exit, scale, prompt, pc, msg, closed_seen>>

\* configure that keeps first_configure set while the size is the fallback
configure_rearmed_on_fallback(w, h) ==
  /\ Handling("configure")
  /\ new_size' = Some(<<w, h>>)
  /\ IF w = 0 \/ h = 0
     THEN width' = 256 /\ height' = 256
     ELSE width' = w /\ height' = h
  /\ IF first_configure
     THEN first_configure' = (w = 0 \/ h = 0) /\ draw(frame_cbs)
     ELSE /\ reqs' = <<>>
          /\ UNCHANGED <<first_configure, canvas, shift, frame_cbs>>
  /\ UNCHANGED <<pos, pending, exit, scale, prompt, pc, msg, closed_seen>>

\* LayerShellHandler::configure
configure(w, h) ==
  /\ Handling("configure")
  /\ new_size' = Some(<<w, h>>)
  /\ IF w = 0 \/ h = 0
     THEN width' = 256 /\ height' = 256
     ELSE width' = w /\ height' = h
  /\ IF first_configure
     THEN first_configure' = FALSE /\ draw(frame_cbs)
     ELSE /\ reqs' = <<>>
          /\ UNCHANGED <<first_configure, canvas, shift, frame_cbs>>
  /\ UNCHANGED <<pos, pending, exit, scale, prompt, pc, msg, closed_seen>>

\* closed that also drops the prompt
closed_clears_prompt ==
  /\ Handling("closed")
  /\ exit' = TRUE
  /\ closed_seen' = TRUE
  /\ prompt' = None
  /\ reqs' = <<>>
  /\ UNCHANGED <<pos, pending, first_configure, width, height, shift, scale, pc, msg,
                 new_size, canvas, frame_cbs>>

\* LayerShellHandler::closed
closed ==
  /\ Handling("closed")
  /\ exit' = TRUE
  /\ closed_seen' = TRUE
  /\ reqs' = <<>>
  /\ UNCHANGED <<pos, pending, first_configure, width, height, shift, scale, prompt, pc, msg,
                 new_size, canvas, frame_cbs>>

\* frame that consumes the callback without drawing
frame_without_draw ==
  /\ Handling("frame")
  /\ frame_cbs > 0
  /\ frame_cbs' = frame_cbs - 1
  /\ reqs' = <<>>
  /\ UNCHANGED <<pos, pending, exit, first_configure, width, height, shift, scale, prompt, pc, msg,
                 new_size, canvas, closed_seen>>

\* CompositorHandler::frame.  The compositor sends `done` only for a callback
\* the client requested; the callback object is consumed by the event.
frame ==
  /\ Handling("frame")
  /\ frame_cbs > 0
  /\ draw(frame_cbs - 1)
  /\ UNCHANGED <<pos, pending, exit, first_configure, width, height, scale, prompt, pc, msg,
                 new_size, closed_seen>>

Keysyms == {"Escape", "Other"}

\* KeyboardHandler::press_key
press_key(keysym) ==
  /\ Handling(IF keysym = "Escape" THEN "press_key_escape" ELSE "press_key_other")
  /\ exit' = (IF keysym = "Escape" THEN TRUE ELSE exit)
  /\ reqs' = <<>>
  /\ UNCHANGED <<pos, pending, first_configure, width, height, shift, scale, prompt, pc, msg,
                 new_size, canvas, frame_cbs, closed_seen>>

PointerKinds == {"Enter", "Leave", "Motion", "Press", "Release", "Axis"}
\* every kind of event on the layer's surface, and a press on another surface
PointerEvent == [surface : {"layer"}, kind : PointerKinds] \cup [surface : {"other"}, kind : {"Press"}]
PointerFrames == UNION { [1..n -> PointerEvent] : n \in 1..MaxPointerEvents }

RECURSIVE pointer_shift(_, _)
\* the `for event in events` loop of pointer_frame, folded over shift
pointer_shift(es, sh) ==
  IF es = <<>> THEN sh
  ELSE LET e == Head(es)
           next == IF e.surface # "layer" THEN sh
                   ELSE IF e.kind = "Press" THEN xor(sh, Some(0)) ELSE sh
       IN  pointer_shift(Tail(es), next)

\* PointerHandler::pointer_frame
pointer_frame(es) ==
  /\ pc = "dispatch"
  /\ ev' = "pointer_frame"
  /\ events' = Some(es)
  /\ dispatched' = TRUE
  /\ shift' = pointer_shift(es, shift)
  /\ reqs' = <<>>
  /\ UNCHANGED <<pos, pending, exit, first_configure, width, height, scale, prompt, pc, msg,
                 new_size, canvas, frame_cbs, closed_seen>>

\* The handlers that touch none of the state above: the SeatHandler callbacks
\* (which only take or release the keyboard and pointer objects), the
\* OutputHandler callbacks, and the KeyboardHandler callbacks other than
\* press_key (focus, release_key, update_modifiers).
Stubs == {"seat", "output", "keyboard"}

stub(name) ==
  /\ Handling(name)
  /\ reqs' = <<>>
  /\ UNCHANGED <<pos, pending, exit, first_configure, width, height, shift, scale, prompt, pc, msg,
                 new_size, canvas, frame_cbs, closed_seen>>

\* scale120 values a PreferredScale event carries: 0, 1.0, 1.5, 2.0
Scales == {0, 120, 180, 240}

\* the same quotient rounded up
scaled_ceil(n, s) == (n * 120 + s - 1) \div s

\* `win * 120 / scale` in u32 arithmetic (truncating division)
scaled(n, s) == (n * 120) \div s

\* Dispatch<WpFractionalScaleV1>::event, PreferredScale { scale }
preferred_scale(s) ==
  /\ Handling("preferred_scale")
  /\ scale' = <<s, 120>>
  /\ IF s = 0
     THEN \* integer division by zero panics before set_size is sent
          /\ pc' = "panicked"
          /\ reqs' = <<>>
     ELSE /\ pc' = pc
          /\ reqs' = << Req("set_size", <<scaled(win_width(pos), s), scaled(win_height(pos), s)>>),
                        Req("set_destination", <<scaled(win_width(pos), s), scaled(win_height(pos), s)>>) >>
  /\ UNCHANGED <<pos, pending, exit, first_configure, width, height, shift, prompt, msg,
                 new_size, canvas, frame_cbs, closed_seen>>

\* event_queue.blocking_dispatch returns once a batch has been dispatched
DispatchReturn ==
  /\ pc = "dispatch"
  /\ dispatched
  /\ pc' = "poll"
  /\ events' = None
  /\ UNCHANGED <<pos, pending, exit, first_configure, width, height, shift, scale, prompt,
                 dispatched, msg, ev, new_size, reqs, canvas, frame_cbs, closed_seen>>

\* ------------------------------------------------------------ D-Bus bridge
\* A message argument is a typed value; the value is kept as text.
Str(v) == [t |-> "string", v |-> v]
Bool(v) == [t |-> "bool", v |-> IF v THEN "true" ELSE "false"]
Int32(v) == [t |-> "int32", v |-> v]

Fprint == "net.reactivated.Fprint.Device"
DBusIface == "org.freedesktop.DBus"

\* argument lists: the two well-formed payloads and their malformations
\* (missing, surplus and wrongly typed arguments)
ArgLists == { <<>>,
              <<Str("a")>>, <<Str("b")>>, <<Int32("7")>>, <<Bool(TRUE)>>,
              <<Str("a"), Bool(TRUE)>>, <<Str("a"), Bool(FALSE)>>,
              <<Int32("7"), Bool(TRUE)>>, <<Int32("7"), Bool(FALSE)>>,
              <<Str("a"), Int32("7")>>, <<Str("a"), Str("b")>>, <<Bool(TRUE), Str("a")>> }

Message(ty, iface, member, args) ==
  [msg_type |-> ty, interface |-> iface, member |-> member, args |-> args]

\* Messages the bus can deliver.  The two headers the bridge recognises come with
\* every argument list; the others with the two well-formed payloads.  A signal
\* always carries an interface (the bus rejects one without).
Messages ==
  { Message("Signal", Some(Fprint), Some(m), a) :
      m \in {"VerifyFingerSelected", "VerifyStatus"}, a \in ArgLists }
  \cup
  { Message(h[1], h[2], h[3], a) :
      h \in { <<"Signal", Some(Fprint), Some("VerifyRetry")>>,
              <<"Signal", Some(DBusIface), Some("VerifyFingerSelected")>>,
              <<"Signal", Some(DBusIface), Some("VerifyStatus")>>,
              <<"Signal", Some(DBusIface), Some("NameAcquired")>>,
              <<"MethodCall", Some(Fprint), Some("VerifyFingerSelected")>>,
              <<"MethodCall", Some(Fprint), Some("VerifyStatus")>>,
              <<"MethodReturn", None, None>>,
              <<"Error", None, None>> },
      a \in { <<Str("a")>>, <<Str("a"), Bool(TRUE)>> } }

\* Iter::get::<String>() / Iter::get::<bool>() at position i of the argument list
get_string(args, i) ==
  IF i <= Len(args) /\ args[i].t = "string" THEN Some(args[i].v) ELSE None
get_bool(args, i) ==
  IF i <= Len(args) /\ args[i].t = "bool" THEN Some(args[i].v = "true") ELSE None

\* Message::get1::<String>()
get1(m) == get_string(m.args, 1)

\* Message::get2::<String, bool>(): the second is read only if Iter::next() succeeds
get2(m) ==
  IF Len(m.args) < 2 THEN <<get_string(m.args, 1), None>>
  ELSE <<get_string(m.args, 1), get_bool(m.args, 2)>>

VerifyFingerSelected(finger_name) ==
  [kind |-> "VerifyFingerSelected", finger_name |-> finger_name, result |-> None, done |-> None]
VerifyStatus(result, done) ==
  [kind |-> "VerifyStatus", finger_name |-> None, result |-> result, done |-> done]

\* the decoder without its interface test
verify_status_msg_any_interface(m) ==
  IF m.msg_type # "Signal" THEN None
  ELSE IF m.member = Some("VerifyFingerSelected") THEN Some(VerifyFingerSelected(get1(m)))
  ELSE IF m.member = Some("VerifyStatus") THEN Some(VerifyStatus(get2(m)[1], get2(m)[2]))
  ELSE None

\* fn verify_status_msg(msg: &Message) -> Option<FprintEvent>
verify_status_msg(m) ==
  IF m.msg_type # "Signal" THEN None
  ELSE IF m.interface # Some(Fprint) THEN None
  ELSE IF m.member = Some("VerifyFingerSelected") THEN Some(VerifyFingerSelected(get1(m)))
  ELSE IF m.member = Some("VerifyStatus") THEN Some(VerifyStatus(get2(m)[1], get2(m)[2]))
  ELSE None

\* the match clearing the prompt on every VerifyStatus
apply_event_any_status(e, pr) ==
  IF e = None THEN pr
  ELSE IF e[1].kind = "VerifyFingerSelected" THEN e[1].finger_name
  ELSE None

\* the `match verify_status_msg(&msg)` of main(): the prompt it leaves
apply_event(e, pr) ==
  IF e = None THEN pr
  ELSE IF e[1].kind = "VerifyFingerSelected" THEN e[1].finger_name
  ELSE IF e[1].done = Some(TRUE) THEN None
  ELSE pr

\* the poll repainting the canvas with the prompt it has just assigned
BusPoll_repaints(m) ==
  /\ pc = "poll"
  /\ msg' = m
  /\ prompt' = (IF m = None THEN prompt ELSE apply_event(verify_status_msg(m[1]), prompt))
  /\ canvas' = (IF canvas = <<>> THEN canvas ELSE paint(pos, prompt'))
  /\ pc' = "check"
  /\ UNCHANGED <<pos, pending, exit, first_configure, width, height, shift, scale, dispatched,
                 ev, new_size, events, reqs, frame_cbs, closed_seen>>

\* main(), lines 182-197: one bounded poll of the bus; m = None is the timeout
BusPoll(m) ==
  /\ pc = "poll"
  /\ msg' = m
  /\ prompt' = (IF m = None THEN prompt ELSE apply_event(verify_status_msg(m[1]), prompt))
  /\ pc' = "check"
  /\ UNCHANGED <<pos, pending, exit, first_configure, width, height, shift, scale, dispatched,
                 ev, new_size, events, reqs, canvas, frame_cbs, closed_seen>>

\* the poll timing out whatever is waiting
BusPollPending_empty ==
  /\ pc = "poll"
  /\ msg' = None
  /\ pc' = "check"
  /\ UNCHANGED <<pos, pending, exit, first_configure, width, height, shift, scale, prompt,
                 dispatched, ev, new_size, events, reqs, canvas, frame_cbs, closed_seen>>

\* main(), lines 182-197, on a bus holding `pending`: incoming(10).next() returns
\* the oldest waiting message, or None when nothing waits
BusPollPending ==
  /\ pc = "poll"
  /\ msg' = (IF pending = <<>> THEN None ELSE Some(Head(pending)))
  /\ pending' = (IF pending = <<>> THEN pending ELSE Tail(pending))
  /\ prompt' = (IF msg' = None THEN prompt ELSE apply_event(verify_status_msg(msg'[1]), prompt))
  /\ pc' = "check"
  /\ UNCHANGED <<pos, exit, first_configure, width, height, shift, scale, dispatched,
                 ev, new_size, events, reqs, canvas, frame_cbs, closed_seen>>

\* the loop test reading the closed event instead of the exit flag
LoopCheck_closed_only ==
  /\ pc = "check"
  /\ pc' = (IF closed_seen THEN "done" ELSE "dispatch")
  /\ dispatched' = FALSE
  /\ msg' = None
  /\ UNCHANGED <<pos, pending, exit, first_configure, width, height, shift, scale, prompt,
                 ev, new_size, events, reqs, canvas, frame_cbs, closed_seen>>

\* main(), lines 199-202: `if simple_layer.exit { break }`, else the next iteration
LoopCheck ==
  /\ pc = "check"
  /\ pc' = (IF exit THEN "done" ELSE "dispatch")
  /\ dispatched' = FALSE
  /\ msg' = None
  /\ UNCHANGED <<pos, pending, exit, first_configure, width, height, shift, scale, prompt,
                 ev, new_size, events, reqs, canvas, frame_cbs, closed_seen>>

\* what `dbus.incoming(10).next()` can return when the bus holds messages of ms
Polled(ms) == {None} \cup {Some(x) : x \in ms}

\* Messages polled while the display side is explored in full: a finger selection
\* under two names, a final and a non-final status, and a foreign signal.
LoopMessages ==
  { Message("Signal", Some(Fprint), Some("VerifyFingerSelected"), <<Str("a")>>),
    Message("Signal", Some(Fprint), Some("VerifyFingerSelected"), <<Str("b")>>),
    Message("Signal", Some(Fprint), Some("VerifyStatus"), <<Str("a"), Bool(TRUE)>>),
    Message("Signal", Some(Fprint), Some("VerifyStatus"), <<Str("a"), Bool(FALSE)>>),
    Message("Signal", Some(DBusIface), Some("NameAcquired"), <<Str("a")>>) }

\* One step of blocking_dispatch or of the loop around it.  Pointer frames carry
\* one event here; PointerFrames are run by SpecPointer below.
Display ==
  \/ \E w \in 0..MaxConfig, h \in 0..MaxConfig : configure(w, h)
  \/ closed
  \/ frame
  \/ \E k \in Keysyms : press_key(k)
  \/ \E e \in PointerEvent : pointer_frame(<<e>>)
  \/ \E s \in Scales : preferred_scale(s)
  \/ \E n \in Stubs : stub(n)
  \/ DispatchReturn
  \/ LoopCheck

Next ==
  \/ Display
  \/ \E m \in Polled(LoopMessages) : BusPoll(m)

\* The program under every bar of PositionInfo.
Spec == Init /\ [][Next]_vars

\* The bridge under every message of Messages, on the bar shaped like main()'s.
InitBus == Init /\ pos = Position(2, 1, RIGHT, TOP, 1)

NextBus ==
  \/ Display
  \/ \E m \in Polled(Messages) : BusPoll(m)

SpecBus == InitBus /\ [][NextBus]_vars

\* The pointer handler under every frame of PointerFrames, on the bar shaped
\* like main()'s.
NextPointer ==
  \/ Display
  \/ \E es \in PointerFrames : pointer_frame(es)
  \/ \E m \in Polled(LoopMessages) : BusPoll(m)

SpecPointer == InitBus /\ [][NextPointer]_vars

\* The scale handler on bars of real size, among them the 100 x 8 bar.  No buffer
\* is drawn: these are the runs in which the first configure has not arrived yet.
ScalePositions == PositionInfo \cup { Position(8, 60, TOP, LEFT, 40),
                                      Position(8, 138, RIGHT, TOP, 100),
                                      Position(7, 33, BOTTOM, LEFT, 0) }

InitScale ==
  /\ pos \in ScalePositions
  /\ exit = FALSE
  /\ first_configure = TRUE
  /\ width = win_width(pos)
  /\ height = win_height(pos)
  /\ shift = None
  /\ scale = <<120, 120>>
  /\ prompt = None
  /\ pc = "dispatch"
  /\ dispatched = FALSE
  /\ msg = None
  /\ ev = "none"
  /\ new_size = None
  /\ events = None
  /\ reqs = SetupReqs(pos)
  /\ canvas = <<>>
  /\ frame_cbs = 0
  /\ closed_seen = FALSE
  /\ pending = <<>>

NextScale ==
  \/ \E s \in Scales : preferred_scale(s)
  \/ closed
  \/ \E k \in Keysyms : press_key(k)
  \/ DispatchReturn
  \/ \E m \in Polled(LoopMessages) : BusPoll(m)
  \/ LoopCheck

SpecScale == InitScale /\ [][NextScale]_vars

\* The animation on a bar eight pixels wide and on the bar shaped like main()'s.
AnimPositions == { Position(8, 1, RIGHT, TOP, 0), Position(2, 1, RIGHT, TOP, 1) }

InitAnim == InitFor(AnimPositions)

SpecAnim == InitAnim /\ [][Next]_vars

\* Every bar up to GeomMax: each edge with the two corners it can be close to.
GeomPositions ==
  { p \in [thickness : 1..GeomMax, length : 1..GeomMax, edge : {TOP, BOTTOM, LEFT, RIGHT},
            close_to : {TOP, BOTTOM, LEFT, RIGHT}, offset : 0..GeomMax] :
      (p.edge \in {TOP, BOTTOM}) # (p.close_to \in {TOP, BOTTOM}) }

InitGeom == InitFor(GeomPositions)

SpecGeom == InitGeom /\ [][NextScale]_vars

\* The loop on a bus that holds a finite queue when it starts and receives
\* nothing more: two finger selections and a final status.
LiveMessages ==
  { Message("Signal", Some(Fprint), Some("VerifyFingerSelected"), <<Str("a")>>),
    Message("Signal", Some(Fprint), Some("VerifyFingerSelected"), <<Str("b")>>),
    Message("Signal", Some(Fprint), Some("VerifyStatus"), <<Str("a"), Bool(TRUE)>>) }

PendingQueues == UNION { [1..n -> LiveMessages] : n \in 0..MaxPending }

InitLive ==
  /\ pos = Position(2, 1, RIGHT, TOP, 1)
  /\ exit = FALSE
  /\ first_configure = TRUE
  /\ width = win_width(pos)
  /\ height = win_height(pos)
  /\ shift = None
  /\ scale = <<120, 120>>
  /\ prompt = None
  /\ pc = "dispatch"
  /\ dispatched = FALSE
  /\ msg = None
  /\ ev = "none"
  /\ new_size = None
  /\ events = None
  /\ reqs = SetupReqs(pos)
  /\ canvas = <<>>
  /\ frame_cbs = 0
  /\ closed_seen = FALSE
  /\ pending \in PendingQueues

NextLive ==
  \/ \E w \in 0..MaxConfig : configure(w, w)
  \/ closed
  \/ frame
  \/ \E k \in Keysyms : press_key(k)
  \/ pointer_frame(<<[surface |-> "layer", kind |-> "Press"]>>)
  \/ \E s \in {0, 120} : preferred_scale(s)
  \/ DispatchReturn
  \/ BusPollPending
  \/ LoopCheck

\* The program takes its own steps: a dispatch that ran a handler returns, the
\* poll returns within its timeout and the exit test follows.  The compositor
\* delivers a frame callback that stays requested.
LiveFairness ==
  /\ WF_vars(DispatchReturn)
  /\ WF_vars(BusPollPending)
  /\ WF_vars(LoopCheck)
  /\ SF_vars(frame)

SpecLive == InitLive /\ [][NextLive]_vars /\ LiveFairness

\* ------------------------------------------------------------------ claims
\* names of the requests a handler issued, in order
Ops(rs) == [i \in 1..Len(rs) |-> rs[i].op]
HasOp(rs, op) == \E i \in 1..Len(rs) : rs[i].op = op
\* the handler that ran last called draw()
Drew == HasOp(reqs, "attach")

\* C1: no pixel content is sent before the first configure event: while
\* first_configure is set no buffer has been painted or attached and no frame
\* callback requested, and the step that paints the first buffer is the handling
\* of a configure event, which clears first_configure.
C1_NoDrawBeforeFirstConfigure ==
  /\ [](first_configure => (canvas = <<>> /\ frame_cbs = 0 /\ ~Drew))
  /\ [][ (canvas = <<>> /\ canvas' # <<>>)
            => (first_configure /\ ~first_configure' /\ ev' = "configure") ]_vars

C1_Witness ==
  ~first_configure /\ ev = "configure" /\ Drew /\ canvas # <<>> /\ new_size # None

\* C2 (as claimed): once the closed event has been handled no later handler
\* draws or issues any surface request, and the exit flag is set.
C2_ClosedIsTerminal ==
  closed_seen => (reqs = <<>> /\ exit)

\* C3: at most one frame callback is outstanding in every state, exactly one
\* after a draw, and a draw issues damage of the whole buffer, the frame
\* request, the attach and the commit, in that order.
C3_OneFrameCallback ==
  /\ frame_cbs \in {0, 1}
  /\ Drew => /\ frame_cbs = 1
             /\ Ops(reqs) = <<"damage_buffer", "frame", "attach", "commit">>
             /\ reqs[1].args = <<0, 0, win_width(pos), win_height(pos)>>

C3_Witness ==
  ev = "frame" /\ Drew /\ frame_cbs = 1

\* a signal the bridge recognises: Fprint interface, one of its two members
Recognised(m) ==
  /\ m.msg_type = "Signal"
  /\ m.interface = Some(Fprint)
  /\ m.member \in {Some("VerifyFingerSelected"), Some("VerifyStatus")}
\* the argument types of a message
Signature(m) == [i \in 1..Len(m.args) |-> m.args[i].t]
\* a recognised signal whose payload has the wrong arity or types
Malformed(m) ==
  /\ Recognised(m)
  /\ \/ m.member = Some("VerifyFingerSelected") /\ Signature(m) # <<"string">>
     \/ m.member = Some("VerifyStatus") /\ Signature(m) # <<"string", "bool">>
\* the step in which main() polls the bus and receives a message
Receives == pc = "poll" /\ pc' = "check" /\ msg' # None
\* everything of SimpleLayer but the prompt
EngineState == <<pos, exit, first_configure, width, height, shift, scale, reqs, canvas,
                 frame_cbs, closed_seen>>

\* C4 (as claimed): a recognised signal with a malformed payload is no event:
\* polling it leaves the prompt and the rest of the engine state unchanged.
C4_MalformedIsNoEvent ==
  [][ (Receives /\ Malformed(msg'[1])) => (prompt' = prompt /\ EngineState' = EngineState) ]_vars

\* C5: a VerifyFingerSelected signal carrying a name sets the prompt to that
\* name; a VerifyStatus signal whose done argument is true clears the prompt
\* whatever it was; a VerifyStatus signal whose done argument is false or absent
\* leaves the prompt unchanged, whatever its result argument.
C5_BridgeDecoding ==
  [][ (Receives /\ Recognised(msg'[1])) =>
        LET m == msg'[1]
            named == Len(m.args) >= 1 /\ m.args[1].t = "string"
            done  == Len(m.args) >= 2 /\ m.args[2] = Bool(TRUE)
        IN  /\ (m.member = Some("VerifyFingerSelected") /\ named) => prompt' = Some(m.args[1].v)
            /\ (m.member = Some("VerifyStatus") /\ done) => prompt' = None
            /\ (m.member = Some("VerifyStatus") /\ ~done) => prompt' = prompt ]_vars

\* a final status has been polled while a prompt was painted, and cleared it
C5_Witness ==
  /\ pc = "check"
  /\ msg = Some(Message("Signal", Some(Fprint), Some("VerifyStatus"), <<Str("a"), Bool(TRUE)>>))
  /\ prompt = None
  /\ \E b \in 1..Len(canvas) : canvas[b] = 255

\* C6: a message that is not a signal, or is on another interface, or has
\* another member, is ignored: polling it changes neither the prompt nor any
\* other engine state, and the loop goes on to its exit test.
C6_ForeignIgnored ==
  [][ (Receives /\ ~Recognised(msg'[1])) => (prompt' = prompt /\ EngineState' = EngineState) ]_vars

\* a well-formed finger selection on a foreign interface was polled while a
\* prompt was active, and the prompt is still there
C6_Witness ==
  /\ pc = "check"
  /\ msg = Some(Message("Signal", Some(DBusIface), Some("VerifyFingerSelected"), <<Str("a")>>))
  /\ prompt = Some("b")

\* C7: the exit flag is set only by an Escape press or the closed event and is
\* never cleared; once it is set and the dispatch has returned, the loop goes
\* through its one bus poll to the exit test and breaks, never entering another
\* blocking dispatch; the loop breaks only with the flag set.
C7_ExitMonotonicBounded ==
  [][ /\ exit => exit'
      /\ (~exit /\ exit') => ev' \in {"press_key_escape", "closed"}
      /\ (exit /\ pc = "poll") => pc' \in {"poll", "check"}
      /\ (exit /\ pc = "check") => pc' \in {"check", "done"}
      /\ pc' = "done" => exit' ]_vars

\* the loop has ended after an Escape press, the surface never closed
C7_Witness ==
  pc = "done" /\ exit /\ ~closed_seen /\ ev = "press_key_escape"

\* C8 (as claimed): new_size (0,0) stores (256,256), any other new_size is
\* stored verbatim.
C8_StoredVerbatimUnlessBothZero ==
  new_size # None =>
    <<width, height>> = (IF new_size[1] = <<0, 0>> THEN <<256, 256>> ELSE new_size[1])

\* C8 (amended): a new_size with a zero component stores (256,256); a new_size
\* with both components nonzero is stored verbatim.
C8_StoredVerbatimUnlessAnyZero ==
  new_size # None =>
    <<width, height>> = (IF new_size[1][1] = 0 \/ new_size[1][2] = 0 THEN <<256, 256>> ELSE new_size[1])

C8_Witness ==
  new_size # None /\ new_size[1][1] = 0 /\ new_size[1][2] # 0 /\ <<width, height>> = <<256, 256>>

\* the sizes a preferred-scale handler requested: set_size and set_destination
ScaleHandled == ev = "preferred_scale" /\ pc # "panicked"
IsFloorOf(q, n, s) == q * s <= n * 120 /\ n * 120 < (q + 1) * s
IsCeilOf(q, n, s) == (q - 1) * s < n * 120 /\ n * 120 <= q * s

\* C9 (as claimed): the size requested and the viewport destination are the same
\* pair, component-wise ceil(size * 120 / scale120).
C9_ScaledSizeIsCeil ==
  ScaleHandled =>
    /\ Ops(reqs) = <<"set_size", "set_destination">>
    /\ reqs[1].args = reqs[2].args
    /\ IsCeilOf(reqs[1].args[1], win_width(pos), scale[1])
    /\ IsCeilOf(reqs[1].args[2], win_height(pos), scale[1])

\* C9 (amended): for scale120 > 0 the size requested and the viewport
\* destination are the same pair, component-wise floor(size * 120 / scale120);
\* for scale120 = 240 and base size (100, 8) it is (50, 4).
C9_ScaledSizeIsFloor ==
  ScaleHandled =>
    /\ scale[1] > 0
    /\ Ops(reqs) = <<"set_size", "set_destination">>
    /\ reqs[1].args = reqs[2].args
    /\ IsFloorOf(reqs[1].args[1], win_width(pos), scale[1])
    /\ IsFloorOf(reqs[1].args[2], win_height(pos), scale[1])
    /\ (scale[1] = 240 /\ <<win_width(pos), win_height(pos)>> = <<100, 8>>)
         => reqs[1].args = <<50, 4>>

\* the 100 x 8 bar has been rescaled by 1.5: 66 x 5, where rounding up gives 67 x 6
C9_Witness ==
  /\ ScaleHandled
  /\ <<win_width(pos), win_height(pos)>> = <<100, 8>>
  /\ scale[1] = 180
  /\ reqs[2].args = <<66, 5>>

\* the handler that ran last in this batch called draw(): the prompt is still
\* the one it painted
DrewNow == pc = "dispatch" /\ dispatched /\ Drew
\* the u32 at column x of row y of the canvas
Pixel(x, y) ==
  LET i == y * win_width(pos) + x
  IN  from_le_bytes(<<canvas[4 * i + 1], canvas[4 * i + 2], canvas[4 * i + 3], canvas[4 * i + 4]>>)

\* C10: a draw leaves a buffer of width * height pixels; with no prompt every
\* pixel is zero; with a prompt every pixel of a row above the offset is
\* 0x00000000 and every pixel of a row at or below it is 0xFFFFFFFF, in every
\* column, whatever the shift.
C10_PaintingRule ==
  DrewNow =>
    /\ Len(canvas) = 4 * win_width(pos) * win_height(pos)
    /\ \A y \in 0..(win_height(pos) - 1) : \A x \in 0..(win_width(pos) - 1) :
          Pixel(x, y) = (IF prompt = None THEN <<0, 0>>
                         ELSE IF y < pos.offset THEN <<0, 0>> ELSE <<65535, 65535>>)

\* a prompt has been painted with the shift running, on a bar of two columns
\* with rows on both sides of the offset
C10_Witness ==
  /\ DrewNow
  /\ prompt # None
  /\ shift = Some(1)
  /\ win_width(pos) = 2
  /\ 0 < pos.offset /\ pos.offset < win_height(pos)
  /\ Pixel(1, 0) = <<0, 0>>
  /\ Pixel(0, pos.offset) = <<65535, 65535>>

\* a step in which a handler calls draw(): a frame callback, or the first configure
DrawStep ==
  /\ pc = "dispatch" /\ pc' = "dispatch"
  /\ ev' = "frame" \/ (ev' = "configure" /\ first_configure)

RECURSIVE advance_n(_, _, _, _)
\* shift after n draws under the prompt pr
advance_n(p, pr, sh, n) == IF n = 0 THEN sh ELSE advance_n(p, pr, advance(p, pr, sh), n - 1)

\* C11 (as claimed): a draw takes Some(k) to Some((k + 1) mod width) whether or
\* not a prompt is active, and leaves None as None.
C11_AdvancesOnEveryDraw ==
  [][ DrawStep =>
        shift' = (IF shift = None THEN None ELSE Some((shift[1] + 1) % win_width(pos))) ]_vars

\* C11 (amended): a draw under an active prompt takes Some(k) to
\* Some((k + 1) mod width), width being the bar's width; a draw with no prompt
\* leaves the shift as it is, and so does a draw with the shift None.  From
\* Some(0) with width 8, nine draws under a prompt leave Some(1).
C11_AdvancesWhilePrompted ==
  /\ [][ DrawStep =>
          shift' = (IF shift # None /\ prompt # None
                    THEN Some((shift[1] + 1) % win_width(pos)) ELSE shift) ]_vars
  /\ [](win_width(pos) = 8 => advance_n(pos, Some("a"), Some(0), 9) = Some(1))

\* on the bar eight wide a draw under a prompt has wrapped the shift from 7 to 0
C11_Witness ==
  DrewNow /\ win_width(pos) = 8 /\ prompt # None /\ shift = Some(0)

\* a step in which pointer_frame handles the slice events'
PointerStep ==
  pc = "dispatch" /\ pc' = "dispatch" /\ ev' = "pointer_frame" /\ events' # None
\* the button presses on the layer's surface in a slice
Presses(es) == Cardinality({ i \in 1..Len(es) : es[i].surface = "layer" /\ es[i].kind = "Press" })

\* shift after n presses: None and Some(_) alternate, and Some is always Some(0)
RECURSIVE Toggled(_, _)
Toggled(sh, n) == IF n = 0 THEN sh ELSE Toggled(IF sh = None THEN Some(0) ELSE None, n - 1)

C13_Geometry ==
  /\ [](LET w == IF pos.edge \in {TOP, BOTTOM} THEN pos.length + pos.offset ELSE pos.thickness
            h == IF pos.edge \in {TOP, BOTTOM} THEN pos.thickness ELSE pos.length + pos.offset
        IN  /\ <<width, height>> = <<w, h>>
            /\ \A c \in {TOP, BOTTOM, LEFT, RIGHT} :
                  /\ win_width([pos EXCEPT !.close_to = c]) = w
                  /\ win_height([pos EXCEPT !.close_to = c]) = h
            /\ ScaleHandled => reqs[1].args = <<scaled(w, scale[1]), scaled(h, scale[1])>>)
  /\ [][pos' = pos]_vars

\* a 1 x 4 bar on the LEFT edge has been asked for at scale 1
C13_Witness ==
  /\ pos.edge = LEFT /\ pos.thickness = 1 /\ pos.length = 2 /\ pos.offset = 2
  /\ ScaleHandled
  /\ scale[1] = 120
  /\ reqs[1].args = <<1, 4>>

\* a configure event handled right after a configure event of the same size
RepeatedConfigure ==
  /\ pc = "dispatch" /\ pc' = "dispatch"
  /\ ev = "configure" /\ ev' = "configure"
  /\ new_size # None /\ new_size' = new_size

\* C14: the second of two equal configure events in a row leaves the stored
\* (width, height) as the first left it, and draws nothing: no request is
\* issued, the canvas and the outstanding frame callbacks stay as they were.
C14_ConfigureIdempotent ==
  [][ RepeatedConfigure =>
        /\ <<width', height'>> = <<width, height>>
        /\ reqs' = <<>>
        /\ <<canvas', shift', frame_cbs', first_configure'>> = <<canvas, shift, frame_cbs, FALSE>> ]_vars

\* the zero-size configure has been handled with the first draw already done
\* and no frame callback delivered since
C14_Witness ==
  /\ ev = "configure"
  /\ new_size = Some(<<0, 0>>)
  /\ <<width, height>> = <<256, 256>>
  /\ ~first_configure
  /\ reqs = <<>>
  /\ frame_cbs = 1

\* a step in which one Wayland handler runs
HandlerStep == pc = "dispatch" /\ pc' \in {"dispatch", "panicked"}
\* the number of buffers attached by a handler's requests
Draws(rs) == Cardinality({ i \in 1..Len(rs) : rs[i].op = "attach" })

\* C15: first_configure, once false, stays false; a handler draws, and then
\* exactly once, iff it is frame or the configure that finds first_configure
\* set, which it clears; every other handler (a later configure, a preferred
\* scale, closed, key, pointer and the seat, output and keyboard callbacks)
\* draws nothing, and the bus poll and the loop test touch neither the canvas,
\* the requests nor the frame callbacks.
C15_DrawTriggers ==
  /\ [][ ~first_configure => ~first_configure' ]_vars
  /\ [][ HandlerStep =>
          IF ev' = "frame" \/ (ev' = "configure" /\ first_configure)
          THEN Draws(reqs') = 1 /\ ~first_configure' /\ frame_cbs' > 0
          ELSE Draws(reqs') = 0 /\ <<canvas', frame_cbs'>> = <<canvas, frame_cbs>> ]_vars
  /\ [][ ~HandlerStep => <<canvas', shift', reqs', frame_cbs', first_configure'>>
                            = <<canvas, shift, reqs, frame_cbs, first_configure>> ]_vars

\* a frame callback has drawn the prompt after a configure that did not
C15_Witness ==
  /\ ev = "frame"
  /\ Draws(reqs) = 1
  /\ ~first_configure
  /\ new_size = Some(<<1, 1>>)
  /\ prompt # None
  /\ shift # None

\* C16 (as claimed): the buffer a draw fills and damages has the stored surface
\* size: width * height * 4 bytes, damaged over (0, 0, width, height).  draw()
\* sizes it from pos instead, so a configure of another size breaks this.
C16_BufferHasStoredSize ==
  Drew =>
    /\ Len(canvas) = width * height * 4
    /\ reqs[1] = Req("damage_buffer", <<0, 0, width, height>>)

\* what the Wayland handlers own: nothing of it moves outside blocking_dispatch
DisplayState == <<ev, events, new_size, reqs, canvas, frame_cbs, shift, scale,
                  width, height, first_configure, exit, closed_seen>>

\* C17: an iteration runs the handlers of its batch, then polls the bus once,
\* then tests exit.  While the batch is dispatched no message is taken and the
\* prompt stands; the poll takes at most one message, applies it and goes
\* straight to the test, drawing nothing; the test goes to the next iteration or
\* ends the loop.  So a frame is always painted from the prompt the latest poll
\* of an earlier iteration left, and a prompt change reaches the canvas only
\* with the first draw of a later iteration.
C17_LoopOrdering ==
  /\ [][ pc = "dispatch" =>
          /\ pc' \in {"dispatch", "poll", "panicked"}
          /\ <<prompt', msg'>> = <<prompt, None>> ]_vars
  /\ [][ pc = "poll" =>
          /\ pc' = "check"
          /\ DisplayState' = DisplayState
          /\ msg' \in Polled(LoopMessages)
          /\ prompt' = (IF msg' = None THEN prompt
                        ELSE apply_event(verify_status_msg(msg'[1]), prompt)) ]_vars
  /\ [][ pc = "check" =>
          /\ pc' \in {"dispatch", "done"}
          /\ DisplayState' = DisplayState
          /\ <<prompt', msg'>> = <<prompt, None>> ]_vars
  /\ [][ DrawStep => canvas' = paint(pos, prompt) ]_vars

\* the poll has set the prompt after this iteration drew a frame without one:
\* the frame on screen is the transparent one
C17_Witness ==
  /\ pc = "check"
  /\ Drew
  /\ msg # None
  /\ prompt # None
  /\ canvas = paint(pos, None)
  /\ canvas # paint(pos, prompt)

\* the handlers blocking_dispatch can run
Handlers == {"configure", "closed", "frame", "press_key_escape", "press_key_other",
             "pointer_frame", "preferred_scale"} \cup Stubs

\* C18: the prompt has one writer, the bus poll of the main loop, and it writes
\* only when a message was taken; every Wayland handler (configure, closed,
\* frame and its draw, preferred scale, key, pointer, seat, output and keyboard
\* callbacks), the return from dispatch and the loop test leave it as it is.
C18_PromptSingleWriter ==
  /\ [][ prompt' # prompt => pc = "poll" /\ pc' = "check" /\ msg' # None ]_vars
  /\ [][ HandlerStep => ev' \in Handlers /\ prompt' = prompt ]_vars

\* a handler has closed the layer while a prompt set by the bus is active
C18_Witness ==
  /\ pc = "dispatch"
  /\ dispatched
  /\ ev = "closed"
  /\ prompt = Some("b")
  /\ canvas # <<>>

\* C19 (as claimed): the scale, scale120 / 120, is greater than 0 in every
\* state, whatever scale120 a PreferredScale event carries, 0 included.  The
\* handler stores 0 / 120 before the division by scale120 panics.
C19_ScalePositive == scale[1] > 0 /\ scale[2] = 120

\* C20: whatever presses, draws, configure events and prompt changes have
\* happened, shift is None or Some(k) with 0 <= k < win_width(pos), the width
\* draw() works with, when that width is at least 1.
C20_ShiftInRange ==
  win_width(pos) >= 1 =>
    \/ shift = None
    \/ 0 <= shift[1] /\ shift[1] < win_width(pos)

\* the animation stands on the last column of a bar three wide: the next draw
\* under a prompt wraps it to 0
C20_Witness ==
  /\ win_width(pos) = 3
  /\ shift = Some(2)
  /\ prompt # None
  /\ new_size # None

\* a message leaves the bus only in the poll that follows a dispatch which ran a
\* handler, as the oldest one, and is decoded and applied in that step; before
\* any display event nothing has been polled
ConsumedAfterDispatch ==
  /\ [][ pending' # pending =>
          /\ pc = "poll" /\ dispatched /\ ev # "none"
          /\ pending' = Tail(pending)
          /\ prompt' = apply_event(verify_status_msg(Head(pending)), prompt) ]_vars
  /\ [](ev = "none" => pc = "dispatch" /\ msg = None /\ prompt = None)
\* the queue empties, and once it is empty a draw paints the prompt it left
QueueDrainedAndPainted ==
  /\ <>(pending = <<>>)
  /\ (pending = <<>>) ~> (DrewNow /\ pending = <<>> /\ canvas = paint(pos, prompt))

\* C21 (as claimed): a message is consumed only after a dispatch returns, and
\* if the surface is never closed, with every requested frame callback
\* answered, every waiting message is eventually applied and the prompt the
\* queue leaves is eventually painted.
C21_LiveUnlessClosed ==
  /\ ConsumedAfterDispatch
  /\ ([]~closed_seen) => QueueDrainedAndPainted

\* C21 (amended): the same, for the runs in which the first configure arrives
\* and the loop keeps running: exit is never set, by closed or by Escape, and
\* no handler panics.
C21_LiveWhileRunning ==
  /\ ConsumedAfterDispatch
  /\ ([](~exit /\ pc # "panicked") /\ <>(~first_configure)) => QueueDrainedAndPainted

\* the queue has been emptied and a later frame has painted the finger it selected
C21_Witness ==
  /\ pending = <<>>
  /\ ~exit
  /\ ev = "frame"
  /\ DrewNow
  /\ prompt = Some("b")
  /\ canvas = paint(pos, prompt)

====
